---- MODULE Spec2Model ----
(***************************************************************************)
(* Model of the tick scheduler of IvonLuiz/task_scheduler:                 *)
(*   src/task.py       Task, Task.release                                  *)
(*   src/scheduler.py  Scheduler (add_task, start, stop, the tick loop)    *)
(*   src/server.py     SchedulerServer.handle_add_task (auto-naming)       *)
(*                                                                         *)
(* Task objects live in the heap `objs` (a sequence, the index is the      *)
(* object's identity); `tasks` is the dict name -> object in insertion     *)
(* order, kept as the sequence of its values.  Task names T1, T2, ... are  *)
(* the integers 1, 2, ...; the idle marker "idle" is Idle.                 *)
(* Gantt characters: " " blank, "#" executing, "." ready, "R", "D".        *)
(***************************************************************************)
EXTENDS Integers, Sequences, FiniteSets, TLC

\* ---------------------------------------------------------------- bounds
\* number of add_task commands served, number of ticks executed
MaxTasks == 2
MaxTicks == 4

\* ------------------------------------------------------ program constants
EventLogMax == 10
Idle == 0
None == 0

VARIABLES
    algorithm,          \* Scheduler.algorithm
    objs,               \* heap of Task objects
    tasks,              \* Scheduler.tasks: values in insertion order (object ids)
    ready_queue,        \* Scheduler.ready_queue (object ids)
    running_task,       \* Scheduler.running_task (object id or None)
    current_tick,       \* Scheduler.current_tick
    is_running,         \* Scheduler.is_running
    scheduler_thread,   \* TRUE once a loop thread object exists
    execution_history,  \* Scheduler.execution_history
    gantt_chart_data,   \* Scheduler.gantt_chart_data: name -> row
    task_display_order, \* Scheduler.task_display_order
    event_log,          \* Scheduler.event_log, deque(maxlen=10)
    task_counter,       \* SchedulerServer.task_counter
    pc,                 \* position of the loop thread
    current_task,       \* local of _scheduler_loop: what _execute_task returned
    ctl,                \* position of the controlling thread
    gs_pc,              \* position of a get_status() call
    status,             \* the dict get_status() is building
    lt_pc,              \* position of a handle_list_tasks() call (0: none)
    task_list,          \* the list handle_list_tasks() is building
    dm_outcome          \* how the last get_deadline_misses() call ended

vars == <<algorithm, objs, tasks, ready_queue, running_task, current_tick,
          is_running, scheduler_thread, execution_history, gantt_chart_data,
          task_display_order, event_log, task_counter, pc, current_task, ctl,
          gs_pc, status, lt_pc, task_list, dm_outcome>>

\* the state of the client threads that read the scheduler
readers == <<gs_pc, status, lt_pc, task_list, dm_outcome>>

\* ---------------------------------------------------------------- helpers
Range(s) == {s[i] : i \in 1..Len(s)}

\* [x] * n
Repeat(x, n) == [i \in 1..n |-> x]

\* deque(maxlen=10).append: the oldest entry is evicted when full
LogAppend(log, e) ==
    IF Len(log) >= EventLogMax THEN Append(Tail(log), e) ELSE Append(log, e)

\* list.remove(x): removes the first occurrence
RECURSIVE ListRemove(_, _)
ListRemove(s, x) ==
    IF s = <<>> THEN <<>>
    ELSE IF Head(s) = x THEN Tail(s)
    ELSE <<Head(s)>> \o ListRemove(Tail(s), x)

\* the tasks' names, in dict order
TaskNames == [i \in 1..Len(tasks) |-> objs[tasks[i]].name]

\* ------------------------------------------------------------------- Task
\* Task.__init__ (deadline or period: a falsy deadline becomes the period)
TaskInit(name, period, execution_time, deadline) ==
    [name |-> name,
     period |-> period,
     execution_time |-> execution_time,
     deadline |-> IF deadline = 0 THEN period ELSE deadline,
     remaining_time |-> 0,
     next_release |-> 0,
     instance |-> 0,
     release_time |-> 0,
     deadline_misses |-> <<>>]

\* mutant: the instance is refilled with the period instead of the execution time
TaskRelease_Period(t, tick) ==
    [t EXCEPT
       !.deadline_misses = IF t.remaining_time > 0
                           THEN Append(t.deadline_misses, t.instance)
                           ELSE t.deadline_misses,
       !.release_time = tick,
       !.remaining_time = t.period,
       !.next_release = tick + t.period,
       !.instance = t.instance + 1]

\* mutant: the next release is scheduled one deadline after this one
TaskRelease_Deadline(t, tick) ==
    [t EXCEPT
       !.deadline_misses = IF t.remaining_time > 0
                           THEN Append(t.deadline_misses, t.instance)
                           ELSE t.deadline_misses,
       !.release_time = tick,
       !.remaining_time = t.execution_time,
       !.next_release = tick + t.deadline,
       !.instance = t.instance + 1]

\* Task.release
TaskRelease(t, tick) ==
    [t EXCEPT
       !.deadline_misses = IF t.remaining_time > 0
                           THEN Append(t.deadline_misses, t.instance)
                           ELSE t.deadline_misses,
       !.release_time = tick,
       !.remaining_time = t.execution_time,
       !.next_release = tick + t.period,
       !.instance = t.instance + 1]

\* -------------------------------------------------------------- add_task
\* Scheduler.add_task, lines 33-41: a new name
AddNew(task) ==
    /\ objs' = Append(objs, task)
    /\ tasks' = Append(tasks, Len(objs) + 1)
    /\ IF task.name \notin DOMAIN gantt_chart_data
       THEN /\ task_display_order' = Append(task_display_order, task.name)
            /\ gantt_chart_data' =
                 [n \in DOMAIN gantt_chart_data \cup {task.name} |->
                    IF n = task.name THEN Repeat(" ", current_tick)
                    ELSE gantt_chart_data[n]]
       ELSE UNCHANGED <<task_display_order, gantt_chart_data>>
    /\ event_log' = LogAppend(event_log,
                      <<"added", task.name, task.period, task.execution_time>>)

\* Scheduler.add_task, lines 42-44: the name exists, the dict entry is replaced in place
AddExisting(task) ==
    /\ objs' = Append(objs, task)
    /\ tasks' = [i \in 1..Len(tasks) |->
                   IF objs[tasks[i]].name = task.name THEN Len(objs) + 1 ELSE tasks[i]]
    /\ UNCHANGED <<task_display_order, gantt_chart_data, event_log>>

\* the lock is held by the loop thread during the critical section of a tick
LockHeld == pc \in {"release", "deadlines", "execute", "run", "gantt"}

\* mutant: the task list is read without the lock
ListLock_None == FALSE

\* handle_list_tasks, line 160: the lock is held by a list_tasks call
ListLock == lt_pc # 0

\* Scheduler.add_task
add_task(task) ==
    /\ ~LockHeld
    /\ ~ListLock
    /\ IF task.name \notin Range(TaskNames) THEN AddNew(task) ELSE AddExisting(task)

\* the values a client sends: int(command["period"]),
\* int(command["execution_time"]), int(command.get("deadline", period))
Periods == {1, 2}
ExecTimes == {1, 2}
Deadlines == {1, 3}

\* the add_task commands a client can send: period, execution_time and an
\* optional deadline
Commands ==
    [period : Periods, execution_time : ExecTimes]
      \cup [period : Periods, execution_time : ExecTimes, deadline : Deadlines]

CmdDeadline(command) ==
    IF "deadline" \in DOMAIN command THEN command.deadline ELSE command.period

\* SchedulerServer.handle_add_task
handle_add_task(command) ==
    /\ task_counter < MaxTasks
    /\ task_counter' = task_counter + 1
    /\ add_task(TaskInit(task_counter + 1, command.period, command.execution_time,
                         CmdDeadline(command)))
    /\ UNCHANGED <<algorithm, ready_queue, running_task, current_tick, is_running,
                   scheduler_thread, execution_history, pc, current_task, ctl>>
    /\ UNCHANGED readers

\* ----------------------------------------------------------- start, stop
\* A controlling thread calls start() once and stop() afterwards, in the order
\* of SchedulerServer.start_server and stop_server (which is called twice, from
\* start_server's finally and from main's finally).  ctl is its position:
\* "init", "serving", "joining" (blocked in join), "stopped".

\* Scheduler.start
StartFrom(position) ==
    /\ ctl = position
    /\ ctl' = "serving"
    /\ IF is_running
       THEN UNCHANGED <<is_running, current_tick, scheduler_thread, pc>>
       ELSE /\ is_running' = TRUE
            /\ current_tick' = 0
            /\ scheduler_thread' = TRUE
            /\ pc' = "while"
    /\ UNCHANGED <<algorithm, objs, tasks, ready_queue, running_task,
                   execution_history, gantt_chart_data, task_display_order,
                   event_log, task_counter, current_task>>
    /\ UNCHANGED readers

\* the first start() of the scheduler
start == StartFrom("init")

\* a start() issued after a stop() has returned
restart == StartFrom("stopped")

\* Scheduler.stop, lines 58-60: clear the flag, then join the thread if there is one
stop ==
    /\ ctl \in {"init", "serving", "stopped"}
    /\ is_running' = FALSE
    /\ ctl' = IF scheduler_thread THEN "joining" ELSE "stopped"
    /\ UNCHANGED <<algorithm, objs, tasks, ready_queue, running_task, current_tick,
                   scheduler_thread, execution_history, gantt_chart_data,
                   task_display_order, event_log, task_counter, pc, current_task>>
    /\ UNCHANGED readers

\* the loop thread has left _scheduler_loop, by return or by an exception
ThreadExited == pc \in {"done", "crashed"}

\* Scheduler.stop, lines 60-61: join() returns once the loop thread has exited
stop_return ==
    /\ ctl = "joining"
    /\ ThreadExited
    /\ ctl' = "stopped"
    /\ UNCHANGED <<algorithm, objs, tasks, ready_queue, running_task, current_tick,
                   is_running, scheduler_thread, execution_history, gantt_chart_data,
                   task_display_order, event_log, task_counter, pc, current_task>>
    /\ UNCHANGED readers

\* ------------------------------------------------------------- tick loop
\* mutant: the loop does not test the flag
LoopTest_IgnoresFlag(limit) ==
    /\ pc = "while"
    /\ Len(execution_history) < limit
    /\ ~ListLock
    /\ pc' = "release"
    /\ UNCHANGED <<algorithm, objs, tasks, ready_queue, running_task, current_tick,
                   is_running, scheduler_thread, execution_history, gantt_chart_data,
                   task_display_order, event_log, task_counter, current_task, ctl>>
    /\ UNCHANGED readers

\* _scheduler_loop, lines 65-66: test the flag, enter the critical section;
\* at most `limit` ticks are executed
LoopTest(limit) ==
    /\ pc = "while"
    /\ IF is_running
       THEN /\ Len(execution_history) < limit
            /\ ~ListLock
            /\ pc' = "release"
       ELSE pc' = "done"
    /\ UNCHANGED <<algorithm, objs, tasks, ready_queue, running_task, current_tick,
                   is_running, scheduler_thread, execution_history, gantt_chart_data,
                   task_display_order, event_log, task_counter, current_task, ctl>>
    /\ UNCHANGED readers

loop_test == LoopTest(MaxTicks)

\* mutant: a due task is released although its instance is unfinished
ReleaseDue_Unfinished(t, tick) == tick >= t.next_release

\* mutant: a task is released only after its release tick
ReleaseDue_Late(t, tick) == tick > t.next_release /\ t.remaining_time = 0

\* _release_tasks, line 78
ReleaseDue(t, tick) == tick >= t.next_release /\ t.remaining_time = 0

\* _release_tasks: the loop over tasks.values() from position i on
RECURSIVE ReleaseFrom(_, _, _, _)
ReleaseFrom(i, o, rq, log) ==
    IF i > Len(tasks) THEN [objs |-> o, ready_queue |-> rq, event_log |-> log]
    ELSE LET id == tasks[i]
             t == o[id]
         IN IF ReleaseDue(t, current_tick)
            THEN ReleaseFrom(i + 1,
                   [o EXCEPT ![id] = TaskRelease(t, current_tick)],
                   IF id \notin Range(rq) THEN Append(rq, id) ELSE rq,
                   LogAppend(log, <<"released", t.name, t.instance + 1, current_tick>>))
            ELSE ReleaseFrom(i + 1, o, rq, log)

\* _scheduler_loop line 67
release_tasks ==
    /\ pc = "release"
    /\ LET r == ReleaseFrom(1, objs, ready_queue, event_log)
       IN /\ objs' = r.objs
          /\ ready_queue' = r.ready_queue
          /\ event_log' = r.event_log
    /\ pc' = "deadlines"
    /\ UNCHANGED <<algorithm, tasks, running_task, current_tick, is_running,
                   scheduler_thread, execution_history, gantt_chart_data,
                   task_display_order, task_counter, current_task, ctl>>
    /\ UNCHANGED readers

\* mutant: the sweep does not look for an earlier record of the instance
MissRecorded_Never(t) == FALSE

\* _check_deadlines, line 96
MissRecorded(t) == t.instance \in Range(t.deadline_misses)

\* _check_deadlines, lines 90-94
DeadlinePassed(t, tick) ==
    /\ t.remaining_time > 0
    /\ t.instance > 0
    /\ tick > t.release_time + t.deadline

\* _check_deadlines: the loop over tasks.values() from position i on
RECURSIVE CheckFrom(_, _, _)
CheckFrom(i, o, log) ==
    IF i > Len(tasks) THEN [objs |-> o, event_log |-> log]
    ELSE LET id == tasks[i]
             t == o[id]
         IN IF DeadlinePassed(t, current_tick) /\ ~MissRecorded(t)
            THEN CheckFrom(i + 1,
                   [o EXCEPT ![id].deadline_misses = Append(@, t.instance)],
                   LogAppend(log, <<"missed", t.name, t.instance,
                                    t.release_time + t.deadline>>))
            ELSE CheckFrom(i + 1, o, log)

\* _scheduler_loop line 68
check_deadlines ==
    /\ pc = "deadlines"
    /\ LET r == CheckFrom(1, objs, event_log)
       IN /\ objs' = r.objs
          /\ event_log' = r.event_log
    /\ pc' = "execute"
    /\ UNCHANGED <<algorithm, tasks, ready_queue, running_task, current_tick,
                   is_running, scheduler_thread, execution_history,
                   gantt_chart_data, task_display_order, task_counter,
                   current_task, ctl>>
    /\ UNCHANGED readers

\* mutants: the wrong field as the key
RMKey_Deadline(t) == t.deadline
EDFKey_Relative(t) == t.deadline

\* the priority keys: lambda t: t.period, lambda t: t.release_time + t.deadline
RMKey(t) == t.period
EDFKey(t) == t.release_time + t.deadline

\* min(...): the position of the first least key
MinIndex(keys) ==
    CHOOSE i \in 1..Len(keys) :
       /\ \A j \in 1..Len(keys) : keys[i] <= keys[j]
       /\ \A j \in 1..(i - 1) : keys[j] > keys[i]

\* min(queue, key=lambda t: t.period)
MinRM(q) == q[MinIndex([i \in 1..Len(q) |-> RMKey(objs[q[i]])])]

\* min(queue, key=lambda t: t.release_time + t.deadline)
MinEDF(q) == q[MinIndex([i \in 1..Len(q) |-> EDFKey(objs[q[i]])])]

\* mutant: a running task is never preempted
PreemptsRM_Never(h, r) == FALSE

\* _execute_task, lines 107 and 119: strictly higher priority preempts
PreemptsRM(h, r) == RMKey(objs[h]) < RMKey(objs[r])
PreemptsEDF(h, r) == EDFKey(objs[h]) < EDFKey(objs[r])

\* mutant: the preempted task is appended without the membership test
PutBack_Always(q, r) == Append(q, r)

\* _execute_task, lines 109-110 and 121-122: put the current task back
PutBack(q, r) == IF r \notin Range(q) THEN Append(q, r) ELSE q

\* _select_task
select_task ==
    IF ready_queue = <<>> THEN None
    ELSE IF algorithm = "RM" THEN MinRM(ready_queue)
    ELSE IF algorithm = "EDF" THEN MinEDF(ready_queue)
    ELSE None

\* _select_task, lines 153-155: the call raises ValueError
SelectRaises ==
    /\ running_task = None
    /\ ready_queue # <<>>
    /\ algorithm \notin {"RM", "EDF"}

\* _execute_task, lines 104-127: preempt the running task or select one
execute_select ==
    /\ pc = "execute"
    /\ IF algorithm = "RM" /\ running_task # None /\ ready_queue # <<>>
       THEN LET h == MinRM(ready_queue)
            IN IF PreemptsRM(h, running_task)
               THEN /\ ready_queue' = PutBack(ready_queue, running_task)
                    /\ running_task' = h
               ELSE UNCHANGED <<ready_queue, running_task>>
       ELSE IF algorithm = "EDF" /\ running_task # None /\ ready_queue # <<>>
       THEN LET h == MinEDF(ready_queue)
            IN IF PreemptsEDF(h, running_task)
               THEN /\ ready_queue' = PutBack(ready_queue, running_task)
                    /\ running_task' = h
               ELSE UNCHANGED <<ready_queue, running_task>>
       ELSE /\ running_task' = IF running_task = None THEN select_task
                               ELSE running_task
            /\ UNCHANGED ready_queue
    /\ pc' = IF SelectRaises THEN "crashed" ELSE "run"
    /\ UNCHANGED <<algorithm, objs, tasks, current_tick, is_running,
                   scheduler_thread, execution_history, gantt_chart_data,
                   task_display_order, event_log, task_counter, current_task, ctl>>
    /\ UNCHANGED readers

\* mutant: the tick is charged twice
Work_Twice(t) == [t EXCEPT !.remaining_time = @ - 2]

\* _execute_task, line 132
Work(t) == [t EXCEPT !.remaining_time = @ - 1]

\* _execute_task, lines 129-142: run the selected task for one tick, record it
execute_run ==
    /\ pc = "run"
    /\ IF running_task # None
       THEN LET r == running_task
                t == Work(objs[r])
            IN /\ objs' = [objs EXCEPT ![r] = t]
               /\ current_task' = t.name
               /\ execution_history' = Append(execution_history, t.name)
               /\ IF t.remaining_time <= 0
                  THEN /\ ready_queue' = IF r \in Range(ready_queue)
                                         THEN ListRemove(ready_queue, r)
                                         ELSE ready_queue
                       /\ running_task' = None
                  ELSE UNCHANGED <<ready_queue, running_task>>
       ELSE /\ current_task' = Idle
            /\ execution_history' = Append(execution_history, Idle)
            /\ UNCHANGED <<objs, ready_queue, running_task>>
    /\ pc' = "gantt"
    /\ UNCHANGED <<algorithm, tasks, current_tick, is_running, scheduler_thread,
                   gantt_chart_data, task_display_order, event_log, task_counter,
                   ctl>>
    /\ UNCHANGED readers

\* _update_and_draw_gantt, lines 161-170: the character of one task for this tick
GanttChar(t, id) ==
    LET c1 == IF t.name = current_task THEN "#"
              ELSE IF id \in Range(ready_queue) THEN "."
              ELSE " "
        c2 == IF current_tick = t.next_release THEN "R" ELSE c1
    IN IF t.instance > 0 /\ current_tick = t.release_time + t.deadline
       THEN "D" ELSE c2

\* _scheduler_loop line 70 (lines 160-172), then the lock is released
update_gantt ==
    /\ pc = "gantt"
    /\ gantt_chart_data' =
         [n \in DOMAIN gantt_chart_data |->
            IF n \in Range(TaskNames)
            THEN LET id == CHOOSE id \in Range(tasks) : objs[id].name = n
                 IN Append(gantt_chart_data[n], GanttChar(objs[id], id))
            ELSE gantt_chart_data[n]]
    /\ pc' = "sleep"
    /\ UNCHANGED <<algorithm, objs, tasks, ready_queue, running_task, current_tick,
                   is_running, scheduler_thread, execution_history,
                   task_display_order, event_log, task_counter, current_task, ctl>>
    /\ UNCHANGED readers

\* _scheduler_loop lines 72-73: sleep, then advance the tick outside the lock
advance_tick ==
    /\ pc = "sleep"
    /\ current_tick' = current_tick + 1
    /\ pc' = "while"
    /\ UNCHANGED <<algorithm, objs, tasks, ready_queue, running_task, is_running,
                   scheduler_thread, execution_history, gantt_chart_data,
                   task_display_order, event_log, task_counter, current_task, ctl>>
    /\ UNCHANGED readers

\* ------------------------------------------------------------ get_status
\* str(task): Task.__repr__, name[instance]; "idle" when there is no task
Label(id) == <<objs[id].name, objs[id].instance>>
IdleLabel == <<Idle, 0>>
NoStatus == [current_tick |-> 0, running_task |-> IdleLabel,
             ready_queue |-> <<>>, total_tasks |-> 0]

\* get_status, line 209: no lock is taken; the dict is built entry by entry
gs_tick ==
    /\ gs_pc \in {"idle", "done"}
    /\ status' = [NoStatus EXCEPT !.current_tick = current_tick]
    /\ gs_pc' = "running"
    /\ UNCHANGED <<algorithm, objs, tasks, ready_queue, running_task, current_tick,
                   is_running, scheduler_thread, execution_history, gantt_chart_data,
                   task_display_order, event_log, task_counter, pc, current_task, ctl,
                   lt_pc, task_list, dm_outcome>>

\* get_status, line 210
gs_running ==
    /\ gs_pc = "running"
    /\ status' = [status EXCEPT !.running_task =
                    IF running_task # None THEN Label(running_task) ELSE IdleLabel]
    /\ gs_pc' = "queue"
    /\ UNCHANGED <<algorithm, objs, tasks, ready_queue, running_task, current_tick,
                   is_running, scheduler_thread, execution_history, gantt_chart_data,
                   task_display_order, event_log, task_counter, pc, current_task, ctl,
                   lt_pc, task_list, dm_outcome>>

\* get_status, line 211
gs_queue ==
    /\ gs_pc = "queue"
    /\ status' = [status EXCEPT !.ready_queue =
                    [i \in 1..Len(ready_queue) |-> Label(ready_queue[i])]]
    /\ gs_pc' = "total"
    /\ UNCHANGED <<algorithm, objs, tasks, ready_queue, running_task, current_tick,
                   is_running, scheduler_thread, execution_history, gantt_chart_data,
                   task_display_order, event_log, task_counter, pc, current_task, ctl,
                   lt_pc, task_list, dm_outcome>>

\* get_status, lines 212-213: the dict is returned
gs_total ==
    /\ gs_pc = "total"
    /\ status' = [status EXCEPT !.total_tasks = Len(tasks)]
    /\ gs_pc' = "done"
    /\ UNCHANGED <<algorithm, objs, tasks, ready_queue, running_task, current_tick,
                   is_running, scheduler_thread, execution_history, gantt_chart_data,
                   task_display_order, event_log, task_counter, pc, current_task, ctl,
                   lt_pc, task_list, dm_outcome>>

\* ------------------------------------------------------------ list_tasks
\* handle_list_tasks, lines 163-171: the entry of one task
ListEntry(t) ==
    [name |-> t.name, period |-> t.period, execution_time |-> t.execution_time,
     deadline |-> t.deadline, remaining_time |-> t.remaining_time,
     instance |-> t.instance, next_release |-> t.next_release]

\* handle_list_tasks, lines 160-161: take the lock
list_begin ==
    /\ lt_pc = 0
    /\ ~LockHeld
    /\ lt_pc' = 1
    /\ task_list' = <<>>
    /\ UNCHANGED <<algorithm, objs, tasks, ready_queue, running_task, current_tick,
                   is_running, scheduler_thread, execution_history, gantt_chart_data,
                   task_display_order, event_log, task_counter, pc, current_task, ctl,
                   gs_pc, status, dm_outcome>>

\* handle_list_tasks, lines 162-171: one iteration over tasks.values()
list_read ==
    /\ lt_pc >= 1
    /\ lt_pc <= Len(tasks)
    /\ task_list' = Append(task_list, ListEntry(objs[tasks[lt_pc]]))
    /\ lt_pc' = lt_pc + 1
    /\ UNCHANGED <<algorithm, objs, tasks, ready_queue, running_task, current_tick,
                   is_running, scheduler_thread, execution_history, gantt_chart_data,
                   task_display_order, event_log, task_counter, pc, current_task, ctl,
                   gs_pc, status, dm_outcome>>

\* handle_list_tasks, line 172: the lock is released, the list is returned
list_return ==
    /\ lt_pc = Len(tasks) + 1
    /\ lt_pc' = 0
    /\ UNCHANGED <<algorithm, objs, tasks, ready_queue, running_task, current_tick,
                   is_running, scheduler_thread, execution_history, gantt_chart_data,
                   task_display_order, event_log, task_counter, pc, current_task, ctl,
                   gs_pc, status, task_list, dm_outcome>>

\* --------------------------------------------------- get_deadline_misses
\* the public methods class Scheduler defines (scheduler.py, lines 30-213)
SchedulerMethods == {"add_task", "start", "stop", "get_status"}

\* main.py, line 19: the caller asks the scheduler for its deadline misses;
\* a method the class does not define raises AttributeError
get_deadline_misses ==
    /\ dm_outcome' = IF "get_deadline_misses" \in SchedulerMethods
                     THEN "returned"
                     ELSE "AttributeError"
    /\ UNCHANGED <<algorithm, objs, tasks, ready_queue, running_task, current_tick,
                   is_running, scheduler_thread, execution_history, gantt_chart_data,
                   task_display_order, event_log, task_counter, pc, current_task, ctl,
                   gs_pc, status, lt_pc, task_list>>

\* ---------------------------------------------------------- specification
\* Scheduler.__init__, SchedulerServer.__init__ (argparse admits RM and EDF)
InitState ==
    /\ objs = <<>>
    /\ tasks = <<>>
    /\ ready_queue = <<>>
    /\ running_task = None
    /\ current_tick = 0
    /\ is_running = FALSE
    /\ scheduler_thread = FALSE
    /\ execution_history = <<>>
    /\ gantt_chart_data = <<>>
    /\ task_display_order = <<>>
    /\ event_log = <<>>
    /\ task_counter = 0
    /\ pc = "none"
    /\ current_task = Idle
    /\ ctl = "init"
    /\ gs_pc = "idle"
    /\ status = NoStatus
    /\ lt_pc = 0
    /\ task_list = <<>>
    /\ dm_outcome = "none"

Init ==
    /\ algorithm \in {"RM", "EDF"}
    /\ InitState

Next ==
    \/ \E command \in Commands : handle_add_task(command)
    \/ start
    \/ stop
    \/ stop_return
    \/ loop_test
    \/ release_tasks
    \/ check_deadlines
    \/ execute_select
    \/ execute_run
    \/ update_gantt
    \/ advance_tick

Spec == Init /\ [][Next]_vars

\* -------------------------------------------------------------- scenarios
\* main.py: the task sets of Exemplo 1/3 (scenario A) and Exemplo 2/4
\* (scenario B), added in this order before the loop is started, and the
\* horizon simulation_time=20
SimulationTime == 20
ScenarioA == <<[period |-> 4, execution_time |-> 1],
               [period |-> 5, execution_time |-> 2]>>
ScenarioB == <<[period |-> 4, execution_time |-> 2],
               [period |-> 5, execution_time |-> 3]>>

\* the next task of the scenario is added while no loop thread exists
ScenarioAdd(scenario) ==
    /\ pc = "none"
    /\ ctl = "init"
    /\ task_counter < Len(scenario)
    /\ handle_add_task(scenario[task_counter + 1])

\* start() once the whole scenario is added
ScenarioStart(scenario) ==
    /\ task_counter = Len(scenario)
    /\ start

\* the critical section of a tick and the advance of current_tick
TickSteps ==
    \/ release_tasks
    \/ check_deadlines
    \/ execute_select
    \/ execute_run
    \/ update_gantt
    \/ advance_tick

scenario_a_add == ScenarioAdd(ScenarioA)
scenario_a_start == ScenarioStart(ScenarioA)
scenario_a_loop_test == LoopTest(SimulationTime)

InitA == Init /\ algorithm = "RM"

NextA ==
    \/ scenario_a_add
    \/ scenario_a_start
    \/ scenario_a_loop_test
    \/ release_tasks
    \/ check_deadlines
    \/ execute_select
    \/ execute_run
    \/ update_gantt
    \/ advance_tick
    \/ stop
    \/ stop_return

SpecA == InitA /\ [][NextA]_vars

scenario_b_add == ScenarioAdd(ScenarioB)
scenario_b_start == ScenarioStart(ScenarioB)
scenario_b_loop_test == LoopTest(SimulationTime + 1)

NextB ==
    \/ scenario_b_add
    \/ scenario_b_start
    \/ scenario_b_loop_test
    \/ release_tasks
    \/ check_deadlines
    \/ execute_select
    \/ execute_run
    \/ update_gantt
    \/ advance_tick

SpecB == Init /\ [][NextB]_vars

\* ------------------------------------------------------------- type check
\* ------------------------------------------------------ client threads
\* two add_task commands sent while clients read the scheduler
SmallCommands ==
    {[period |-> 1, execution_time |-> 1], [period |-> 2, execution_time |-> 2]}

small_add == \E command \in SmallCommands : handle_add_task(command)

\* a client polls get_status while tasks are added and the loop ticks
NextStatus ==
    \/ small_add
    \/ start
    \/ loop_test
    \/ release_tasks
    \/ check_deadlines
    \/ execute_select
    \/ execute_run
    \/ update_gantt
    \/ advance_tick
    \/ gs_tick
    \/ gs_running
    \/ gs_queue
    \/ gs_total

SpecStatus == Init /\ [][NextStatus]_vars

\* ------------------------------------------------------ unchecked input
\* add_task commands whose fields parse as integers, valid or not
RawValues == {0, 1}
RawCommands == [period : RawValues, execution_time : RawValues, deadline : RawValues]

Invalid(command) ==
    \/ command.period <= 0
    \/ command.execution_time <= 0
    \/ command.deadline <= 0

raw_add == \E command \in RawCommands : handle_add_task(command)

NextRaw ==
    \/ raw_add
    \/ start
    \/ loop_test
    \/ release_tasks
    \/ check_deadlines
    \/ execute_select
    \/ execute_run
    \/ update_gantt
    \/ advance_tick

SpecRaw == Init /\ [][NextRaw]_vars

\* --------------------------------------------------- a serving scheduler
\* Scheduler.__init__, line 15: the constructor stores any algorithm value
InitAny ==
    /\ algorithm \in {"RM", "EDF", "FIFO"}
    /\ InitState

\* tasks are added while the scheduler is started, ticks and is stopped
NextServe ==
    \/ small_add
    \/ start
    \/ stop
    \/ stop_return
    \/ loop_test
    \/ release_tasks
    \/ check_deadlines
    \/ execute_select
    \/ execute_run
    \/ update_gantt
    \/ advance_tick

SpecAny == InitAny /\ [][NextServe]_vars

\* the loop thread, once started, keeps being scheduled, and a join() on an
\* exited thread returns
loop_step == loop_test \/ TickSteps
Fairness == WF_vars(loop_step) /\ WF_vars(stop_return)

SpecFair == Init /\ [][NextServe]_vars /\ Fairness

\* a scheduler that is started again after it was stopped
NextRestart ==
    \/ small_add
    \/ start
    \/ restart
    \/ stop
    \/ stop_return
    \/ loop_test
    \/ release_tasks
    \/ check_deadlines
    \/ execute_select
    \/ execute_run
    \/ update_gantt
    \/ advance_tick

SpecRestart == Init /\ [][NextRestart]_vars

\* a client polls list_tasks while tasks are added and the loop ticks
NextList ==
    \/ small_add
    \/ start
    \/ loop_test
    \/ release_tasks
    \/ check_deadlines
    \/ execute_select
    \/ execute_run
    \/ update_gantt
    \/ advance_tick
    \/ list_begin
    \/ list_read
    \/ list_return

SpecList == Init /\ [][NextList]_vars

\* a caller asks for the deadline misses while the scheduler runs
NextMisses ==
    \/ small_add
    \/ start
    \/ loop_test
    \/ release_tasks
    \/ check_deadlines
    \/ execute_select
    \/ execute_run
    \/ update_gantt
    \/ advance_tick
    \/ get_deadline_misses

SpecMisses == Init /\ [][NextMisses]_vars

\* ------------------------------------------------- add_task called directly
\* a caller of Scheduler.add_task chooses the task's name
DirectNames == {1, 2}

direct_add ==
    /\ Len(objs) < MaxTasks
    /\ \E name \in DirectNames, command \in SmallCommands :
          add_task(TaskInit(name, command.period, command.execution_time,
                            CmdDeadline(command)))
    /\ UNCHANGED <<algorithm, ready_queue, running_task, current_tick, is_running,
                   scheduler_thread, execution_history, task_counter, pc,
                   current_task, ctl>>
    /\ UNCHANGED readers

NextDirect ==
    \/ direct_add
    \/ start
    \/ loop_test
    \/ release_tasks
    \/ check_deadlines
    \/ execute_select
    \/ execute_run
    \/ update_gantt
    \/ advance_tick

SpecDirect == Init /\ [][NextDirect]_vars

TypeOK ==
    /\ algorithm \in {"RM", "EDF"}
    /\ Range(tasks) \subseteq 1..Len(objs)
    /\ Range(ready_queue) \subseteq 1..Len(objs)
    /\ running_task \in 0..Len(objs)
    /\ current_tick \in Nat
    /\ Len(event_log) <= EventLogMax
    /\ DOMAIN gantt_chart_data = Range(TaskNames)

\* ------------------------------------------------------ steps of the loop
ReleaseStep == pc = "release" /\ pc' = "deadlines"
CheckStep == pc = "deadlines" /\ pc' = "execute"
SelectStep == pc = "execute" /\ pc' = "run"
RunStep == pc = "run" /\ pc' = "gantt"

Objs == 1..Len(objs)
Last(s) == s[Len(s)]
Count(s, x) == Cardinality({i \in 1..Len(s) : s[i] = x})
NoDuplicates(s) == \A i, j \in 1..Len(s) : s[i] = s[j] => i = j

\* the priority of a task under the scheduler's algorithm (smaller is higher)
Prio(t) == IF algorithm = "RM" THEN t.period ELSE t.release_time + t.deadline

\* position of a task object in the tasks dict (add_task insertion order)
TaskPos(id) == CHOOSE i \in 1..Len(tasks) : tasks[i] = id

\* ----------------------------------------------------------------- C1
\* C1: in every tick the execution pass either decreases exactly one task's
\* remaining_time by exactly 1 and appends that task's name to
\* execution_history, or decreases none and appends the idle marker; the
\* history grows by exactly one entry per tick (and by nothing else).
C1_Step ==
    /\ SelectStep =>
         /\ execution_history' = execution_history
         /\ \A i \in Objs : objs'[i].remaining_time = objs[i].remaining_time
    /\ RunStep =>
         /\ Len(execution_history') = Len(execution_history) + 1
         /\ SubSeq(execution_history', 1, Len(execution_history)) = execution_history
         /\ \/ \E i \in Objs :
                 /\ objs'[i].remaining_time = objs[i].remaining_time - 1
                 /\ \A j \in Objs \ {i} :
                      objs'[j].remaining_time = objs[j].remaining_time
                 /\ Last(execution_history') = objs[i].name
            \/ /\ \A j \in Objs : objs'[j].remaining_time = objs[j].remaining_time
               /\ Last(execution_history') = Idle
    /\ ~RunStep => execution_history' = execution_history

C1_OneTaskOrIdlePerTick == [][C1_Step]_vars

\* a run in which one tick was idle and another executed a task
C1_Witness ==
    /\ pc = "gantt"
    /\ \E i, j \in 1..Len(execution_history) :
         execution_history[i] = Idle /\ execution_history[j] # Idle

\* ----------------------------------------------------------------- C2
\* C2: every task has 0 <= remaining_time <= execution_time in every
\* reachable state.
C2_RemainingInRange ==
    \A i \in Objs :
       0 <= objs[i].remaining_time /\ objs[i].remaining_time <= objs[i].execution_time

\* a partly executed instance, and a completed one
C2_Witness ==
    /\ \E i \in Objs : 0 < objs[i].remaining_time
                       /\ objs[i].remaining_time < objs[i].execution_time
    /\ \E i \in Objs : objs[i].instance > 0 /\ objs[i].remaining_time = 0

\* ----------------------------------------------------------------- C3
\* C3: the release pass of tick t releases every task whose next_release <= t
\* (instance + 1, release_time = t, remaining_time = execution_time), whether
\* or not its previous instance is finished.
C3_Step ==
    ReleaseStep =>
      \A i \in 1..Len(tasks) :
         LET id == tasks[i] IN
         objs[id].next_release <= current_tick =>
            /\ objs'[id].instance = objs[id].instance + 1
            /\ objs'[id].release_time = current_tick
            /\ objs'[id].remaining_time = objs[id].execution_time

C3_ReleaseEveryDueTask == [][C3_Step]_vars

\* ----------------------------------------------------------------- C4
\* C4: when a task still has remaining_time > 0 at the tick where
\* current_tick reaches its next_release, that tick's release pass records
\* the unfinished instance in the task's deadline_misses.
C4_Step ==
    ReleaseStep =>
      \A i \in 1..Len(tasks) :
         LET id == tasks[i] IN
         (objs[id].remaining_time > 0 /\ current_tick = objs[id].next_release) =>
            objs[id].instance \in Range(objs'[id].deadline_misses)

C4_OverrunFlaggedAtRelease == [][C4_Step]_vars

\* ----------------------------------------------------------------- C5
\* C5: an instance is in deadline_misses if and only if it was unfinished at
\* a tick beyond its absolute deadline or unfinished when its next release
\* came due: after the release and deadline passes of a tick the current
\* instance is flagged exactly when it was flagged before or is overdue now.
Overdue(t, tick) ==
    /\ t.instance > 0
    /\ t.remaining_time > 0
    /\ \/ tick > t.release_time + t.deadline
       \/ tick >= t.next_release

C5_Step ==
    CheckStep =>
      \A i \in 1..Len(tasks) :
         LET id == tasks[i] IN
         MissRecorded(objs'[id]) <=>
            (MissRecorded(objs[id]) \/ Overdue(objs[id], current_tick))

C5_MissIffOverdue == [][C5_Step]_vars

\* ----------------------------------------------------------------- C6
\* C6: no instance index appears more than once in a task's deadline_misses.
C6_MissRecordedOnce == \A i \in Objs : NoDuplicates(objs[i].deadline_misses)

\* a flagged, still unfinished instance has gone through a further sweep
C6_Witness ==
    /\ pc = "execute"
    /\ \E i \in Objs :
         /\ MissRecorded(objs[i])
         /\ objs[i].remaining_time > 0
         /\ current_tick > objs[i].release_time + objs[i].deadline + 1

\* ----------------------------------------------------------------- C7
\* C7: under RM the task that receives the tick has the least period among
\* all tasks with remaining_time > 0 after the tick's release pass.
C7_RMRunsLeastPeriod ==
    (pc = "run" /\ algorithm = "RM" /\ running_task # None) =>
       \A i \in Objs :
          objs[i].remaining_time > 0 => objs[running_task].period <= objs[i].period

\* a task runs while a partly executed task of strictly larger period is ready
C7_Witness ==
    /\ pc = "run" /\ algorithm = "RM" /\ running_task # None
    /\ \E i \in Objs :
         /\ objs[i].remaining_time > 0
         /\ objs[i].remaining_time < objs[i].execution_time
         /\ objs[running_task].period < objs[i].period

\* ----------------------------------------------------------------- C8
\* C8: under EDF the task that receives the tick has the least absolute
\* deadline (release_time + deadline) among all tasks with remaining_time > 0.
C8_EDFRunsEarliestDeadline ==
    (pc = "run" /\ algorithm = "EDF" /\ running_task # None) =>
       \A i \in Objs :
          objs[i].remaining_time > 0 =>
             objs[running_task].release_time + objs[running_task].deadline
               <= objs[i].release_time + objs[i].deadline

\* a later released task with an earlier absolute deadline runs while a partly
\* executed task waits
C8_Witness ==
    /\ pc = "run" /\ algorithm = "EDF" /\ running_task # None
    /\ \E i \in Objs :
         /\ objs[i].remaining_time > 0
         /\ objs[i].remaining_time < objs[i].execution_time
         /\ objs[i].release_time < objs[running_task].release_time
         /\ objs[running_task].release_time + objs[running_task].deadline
              < objs[i].release_time + objs[i].deadline

\* ----------------------------------------------------------------- C9
\* C9: when no task is running and several ready tasks tie on priority, the
\* one added first (add_task insertion order) is selected.
C9_Step ==
    (SelectStep /\ running_task = None /\ running_task' # None) =>
       \A j \in Range(tasks) :
          (objs[j].remaining_time > 0 /\ Prio(objs[j]) = Prio(objs[running_task'])) =>
             TaskPos(running_task') <= TaskPos(j)

C9_TieByInsertionOrder == [][C9_Step]_vars

\* ----------------------------------------------------------------- C10
\* C10: when a strictly higher-priority task is in ready_queue, the running
\* task is preempted: no remaining_time changes in the selection, the
\* preempted task is in ready_queue exactly once, the highest-priority task
\* becomes running_task and is the one that executes; a task with
\* remaining_time > 0 is never reset to execution_time by a release.
C10_Step ==
    /\ (SelectStep /\ running_task # None
          /\ \E j \in Range(ready_queue) : Prio(objs[j]) < Prio(objs[running_task])) =>
         /\ objs' = objs
         /\ Count(ready_queue', running_task) = 1
         /\ running_task' \in Range(ready_queue)
         /\ running_task' # running_task
         /\ \A j \in Range(ready_queue) :
              Prio(objs[running_task']) <= Prio(objs[j])
    /\ (RunStep /\ running_task # None) =>
         /\ \A j \in Objs \ {running_task} : objs'[j] = objs[j]
         /\ Last(execution_history') = objs[running_task].name
    /\ ReleaseStep =>
         \A j \in Objs : objs[j].remaining_time > 0 => objs'[j] = objs[j]

C10_PreemptionKeepsProgress == [][C10_Step]_vars

\* a partly executed task waits in ready_queue, exactly once, while a task of
\* strictly higher priority is running_task
C10_Witness ==
    /\ pc = "run" /\ running_task # None
    /\ \E i \in Range(ready_queue) :
         /\ i # running_task
         /\ objs[i].remaining_time > 0
         /\ objs[i].remaining_time < objs[i].execution_time
         /\ Count(ready_queue, i) = 1
         /\ Prio(objs[running_task]) < Prio(objs[i])

\* ----------------------------------------------------------------- C11
\* C11: scenario B, T1(4,2) and T2(5,3) added before the loop starts: once
\* ticks 0..20 have run, some task has a recorded deadline miss, under RM and
\* under EDF.
C11_ScenarioBMisses ==
    Len(execution_history) = SimulationTime + 1 =>
       \E i \in Range(tasks) : objs[i].deadline_misses # <<>>

\* ----------------------------------------------------------------- C12
\* C12: scenario A under RM, T1(4,1) and T2(5,2) added before the loop
\* starts: no task ever has an entry in deadline_misses during the 20 ticks
\* and every run follows one timeline (the history is always a prefix of it).
TimelineA == <<1, 2, 2, Idle, 1, 2, 2, Idle, 1, Idle,
               2, 2, 1, Idle, Idle, 2, 1, 2, Idle, Idle>>

C12_ScenarioATimeline ==
    /\ \A i \in Objs : objs[i].deadline_misses = <<>>
    /\ Len(execution_history) <= Len(TimelineA)
    /\ execution_history = SubSeq(TimelineA, 1, Len(execution_history))

\* the 20 ticks have run
C12_Witness ==
    /\ Len(execution_history) = SimulationTime
    /\ Len(tasks) = 2
    /\ pc = "sleep"

\* C13: a get_status() call concurrent with the tick loop never returns a
\* non-idle running_task label together with a ready_queue that does not
\* contain that label (no torn snapshot).
C13_StatusNotTorn ==
    gs_pc = "done" =>
       \/ status.running_task = IdleLabel
       \/ status.running_task \in Range(status.ready_queue)

\* C14: an add_task command with period <= 0, execution_time <= 0 or
\* deadline <= 0 leaves tasks, ready_queue, the gantt rows, event_log and the
\* server's name counter as they were before the call.
C14_Step ==
    \A command \in RawCommands :
       (Invalid(command) /\ handle_add_task(command)) =>
          UNCHANGED <<objs, tasks, ready_queue, gantt_chart_data, event_log,
                      task_counter>>
C14_InvalidTaskRejected == [][C14_Step]_vars

\* C15: no tick of the loop raises the invalid-algorithm error: the loop
\* thread never dies in _select_task, whatever value the Scheduler was
\* constructed with.
C15_LoopNeverRaises == pc # "crashed"

\* C16: once stop() has cleared the flag the loop starts no further tick (the
\* tick in progress is the only one that still completes), stop() returns
\* only after the loop thread has exited, a stop() with no thread to join
\* returns at once, and every stop() that waits eventually returns.
C16_Step ==
    /\ (~is_running /\ pc = "while") => pc' # "release"
    /\ (ctl = "joining" /\ ctl' = "stopped") => pc = "done"
    /\ (ctl = "init" /\ ctl' \notin {"init", "serving"}) => ctl' = "stopped"
C16_StopTerminates ==
    /\ [][C16_Step]_vars
    /\ (ctl = "joining") ~> (ctl = "stopped")
C16_Witness ==
    /\ ctl = "stopped"
    /\ pc = "done"
    /\ Len(execution_history) >= 1

\* C17: current_tick never decreases, over any sequence of start(), stop(),
\* add_task and ticks, a start() issued after a stop() included.
C17_TickNeverDecreases == [][current_tick' >= current_tick]_vars

\* C18: a task is added only between ticks and stays unreleased until a
\* release pass; the first release pass after add_task releases it (instance
\* 1, release_time the current tick, member of ready_queue), so inside a tick
\* every task of the table is released; and while the loop keeps ticking
\* every added task is eventually released.
C18_Step ==
    /\ Len(tasks') > Len(tasks) =>
          /\ ~LockHeld
          /\ \A k \in (Len(tasks) + 1)..Len(tasks') :
                /\ objs'[tasks'[k]].instance = 0
                /\ tasks'[k] \notin Range(ready_queue')
    /\ ReleaseStep =>
          \A k \in 1..Len(tasks) :
             objs[tasks[k]].instance = 0 =>
                /\ objs'[tasks[k]].instance = 1
                /\ objs'[tasks[k]].release_time = current_tick
                /\ tasks[k] \in Range(ready_queue')
    /\ pc \in {"deadlines", "execute", "run", "gantt"} =>
          \A k \in 1..Len(tasks) : objs[tasks[k]].instance >= 1
C18_AddedTaskReleasedNextTick ==
    /\ [][C18_Step]_vars
    /\ \A k \in 1..MaxTasks :
          (Len(tasks) >= k /\ is_running /\ Len(execution_history) < MaxTicks)
             ~> (~is_running \/ (Len(tasks) >= k /\ objs[tasks[k]].instance >= 1))
C18_Witness ==
    \E i \in Objs : objs[i].instance = 1 /\ objs[i].release_time >= 1

\* C19: whenever the tick loop does not hold the lock, ready_queue holds
\* exactly the tasks with remaining_time > 0, each once, and running_task is
\* None or a member of ready_queue with remaining_time > 0.
C19_QueueHoldsUnfinished ==
    ~LockHeld =>
       /\ Range(ready_queue) = {i \in Range(tasks) : objs[i].remaining_time > 0}
       /\ NoDuplicates(ready_queue)
       /\ \/ running_task = None
          \/ /\ running_task \in Range(ready_queue)
             /\ objs[running_task].remaining_time > 0
C19_Witness ==
    /\ pc = "sleep"
    /\ running_task # None
    /\ \E i \in Range(tasks) : objs[i].remaining_time = 0 /\ objs[i].instance > 0

\* C20: while a list_tasks call builds its list the loop is outside its
\* critical section, and the list holds, in add_task insertion order, the
\* fields the tasks read so far have in the current state: the returned list
\* is the whole table as it is at one tick boundary.
C20_ListIsSnapshot ==
    lt_pc >= 1 =>
       /\ ~LockHeld
       /\ lt_pc <= Len(tasks) + 1
       /\ task_list = [k \in 1..(lt_pc - 1) |-> ListEntry(objs[tasks[k]])]
C20_Witness ==
    /\ lt_pc = Len(tasks) + 1
    /\ Len(tasks) = 2
    /\ pc = "sleep"
    /\ \E k \in 1..Len(task_list) :
          task_list[k].instance >= 1 /\ task_list[k].remaining_time > 0

\* C21: instance changes only in a release pass, where it grows by exactly
\* 1 for a released task, and every task released at least once has
\* next_release = release_time + period.
C21_Step ==
    \A i \in Objs :
       \/ objs'[i].instance = objs[i].instance
       \/ /\ ReleaseStep
          /\ objs'[i].instance = objs[i].instance + 1
C21_InstanceAndNextRelease ==
    /\ [][C21_Step]_vars
    /\ [](\A i \in Objs :
            objs[i].instance > 0 =>
               objs[i].next_release = objs[i].release_time + objs[i].period)
C21_Witness ==
    \E i \in Objs : objs[i].instance >= 2 /\ objs[i].release_time >= 1

\* C22: a get_deadline_misses() call on the scheduler never fails.
C22_MissesQueryNeverFails == dm_outcome # "AttributeError"

\* C23: every task object in ready_queue, and the running task if there is
\* one, is the object stored in tasks under its name.
C23_QueueOwnedByTasks ==
    /\ Range(ready_queue) \subseteq Range(tasks)
    /\ running_task # None => running_task \in Range(tasks)

\* C24: whenever the loop is outside its critical section, every row of
\* gantt_chart_data has as many columns as ticks have been recorded.
C24_GanttRowsAligned ==
    ~LockHeld =>
       \A n \in DOMAIN gantt_chart_data :
          Len(gantt_chart_data[n]) = Len(execution_history)

\* C25: when the gantt rows are extended for a tick, a task's marker is "R"
\* exactly when the task was released at this tick and the tick is not the
\* deadline tick of its current instance.
GanttStep == pc = "gantt" /\ pc' = "sleep"
ReleasedNow(t) == t.instance > 0 /\ t.release_time = current_tick
DeadlineTick(t) == t.instance > 0 /\ current_tick = t.release_time + t.deadline
C25_Step ==
    GanttStep =>
       \A id \in Range(tasks) :
          (Last(gantt_chart_data'[objs[id].name]) = "R")
             <=> (ReleasedNow(objs[id]) /\ ~DeadlineTick(objs[id]))
C25_ReleaseMarker == [][C25_Step]_vars

====
